---- MODULE Spec2Model ----
(***************************************************************************)
(* TransformSelectForecaster                                               *)
(* (sktime/forecasting/compose/_transform_select_forecaster.py).           *)
(*                                                                         *)
(* The composite classifies a series with a transformer, routes the label  *)
(* to one of several candidate forecasters (or a fallback), fits a clone   *)
(* of it and forwards predict/update calls to that clone.                  *)
(*                                                                         *)
(* Encoding of Python values:                                              *)
(*   - None is the string "None" where the other values are strings, and   *)
(*     0 where the other values are positive integers (object ids, series, *)
(*     horizons);                                                          *)
(*   - tag values are the strings "True", "False", "None"; a tag a model   *)
(*     does not declare is absent from the DOMAIN of its tag dictionary;   *)
(*   - a dict is a function whose DOMAIN is its key set;                   *)
(*   - every estimator object has an integer identity (its key in objs).   *)
(***************************************************************************)
EXTENDS Integers, Sequences, FiniteSets, TLC

\* ----------------------------------------------------------------- bounds
\* fit calls per composite
MaxFits == 2
\* assignments to _forecasters per composite
MaxSets == 2
\* update calls per active forecaster
MaxUpdates == 1

None == "None"
NoId == 0

Exog == {None, "X1"}
\* fh=None (0) and a forecasting horizon
Horizons == {0, 1}
Coverages == {"c90"}

\* ------------------------------------------------------------- categories
\* labels a transformer can emit; the first two are the ADI/CV classes of the
\* docstring example (lines 68-70), the third is the reserved name of the
\* _forecasters view (line 403), which a user may also use as a category
CategoryNames == <<"smooth", "erratic", "fallback_forecaster">>
Categories == {CategoryNames[i] : i \in 1..Len(CategoryNames)}

\* one series of each category
Series == 1..Len(CategoryNames)

\* --------------------------------------------------------------- the tags
true_if_all_tags ==
    {"ignores-exogeneous-X", "X-y-must-have-same-index", "enforce_index_type",
     "handles-missing-data", "capability:insample", "capability:pred_int",
     "capability:pred_int:insample"}

true_if_any_tags == {"requires-fh-in-fit", "X-y-must-have-same-index"}

TagNames == true_if_all_tags \cup true_if_any_tags

\* the values a tag takes: booleans, and for enforce_index_type also None
\* (its value in the composite's own class, line 92)
TagValues(t) ==
    IF t = "enforce_index_type" THEN {"True", "False", "None"}
    ELSE {"True", "False"}

\* the class-level tags of the composite itself
_tags ==
    [t \in {"ignores-exogeneous-X", "requires-fh-in-fit", "enforce_index_type"} |->
        IF t = "enforce_index_type" THEN "None" ELSE "False"]

VARIABLES
    phase,               \* "new" (arguments chosen), "constructed", "failed"
    forecasters,         \* self.forecasters: dict label -> object id
    forecasters_keys,    \* the keys of self.forecasters in dict order
    fallback_forecaster, \* self.fallback_forecaster: object id or NoId
    transformer,         \* self.transformer: the user's object, or "None"
    transformer_,        \* self.transformer_: the composite's own clone
    forecasters_,        \* self.forecasters_: dict label -> id of a clone
    objs,                \* the forecaster objects: id -> record
    nextId,              \* the identity the next created object gets
    tags_dynamic,        \* tags set on the instance with set_tags
    attached,            \* instance attributes added at the end of __init__
    category_,           \* self.category_ ("None": attribute not set)
    chosen_forecaster_,  \* self.chosen_forecaster_ (NoId: attribute not set)
    is_fitted,           \* the framework's fitted-state flag
    last,                \* the last call on the composite and how it ended
    before,              \* the fitted attributes as they were before that call
    modelCall,           \* the call that reached a forecaster during it
    nsets                \* assignments to self._forecasters so far

vars == <<phase, forecasters, forecasters_keys, fallback_forecaster,
          transformer, transformer_, forecasters_, objs, nextId, tags_dynamic,
          attached, category_, chosen_forecaster_, is_fitted, last, before,
          modelCall, nsets>>

config == <<forecasters, forecasters_keys, fallback_forecaster, transformer>>

\* ------------------------------------------------------------ collaborators
\* A forecaster object: mark stands for its class and hyper-parameters (what a
\* clone shares with its original), fit is the series it was last fitted on
\* (0: unfitted), nupd the updates it received since.
Forecaster(mark, tags, is_forecaster, fit) ==
    [mark |-> mark, tags |-> tags, is_forecaster |-> is_forecaster,
     fit |-> fit, nupd |-> 0]

\* estimator.clone(): a new object with the same class and hyper-parameters
\* and no fitted state
clone(o) == [o EXCEPT !.fit = 0, !.nupd = 0]

\* forecaster.predict / predict_interval / ...: a value determined by the
\* forecaster's class, its fitted state and the arguments of the call
Forecast(o, op, fh, X, opt) == <<op, o.mark, o.fit, o.nupd, fh, X, opt>>

\* A transformer object: kind is its class, fitted the series of its last
\* fit (0: unfitted), calls the number of fit_transform calls it received.
Transformer(kind) == [kind |-> kind, fitted |-> 0, calls |-> 0]

\* transformer.clone()
clone_transformer(t) == Transformer(t.kind)

CategoryAt(i) == CategoryNames[((i - 1) % Len(CategoryNames)) + 1]

\* transformer.fit_transform(X=y, y=X): a table of at least one row and one
\* column; the category of the series is in its first row and first column,
\* the other cells hold other values
fit_transform(t, y) ==
    LET i == IF t.kind = "ADICV" THEN y ELSE y + 1
    IN  << <<CategoryAt(i), CategoryAt(i + 1)>>,
           <<CategoryAt(i + 2), CategoryAt(i + 1)>> >>

\* DataFrame.iloc[r, c] (zero-based)
iloc(table, r, c) == table[r + 1][c + 1]

classify_other_cell(t, y) == iloc(fit_transform(t, y), 1, 1)

\* line 240: the label is the cell in the first row and first column
classify(t, y) == iloc(fit_transform(t, y), 0, 0)

\* records of calls
NoCall ==
    [op |-> "None", y |-> 0, X |-> None, fh |-> 0, opt |-> None,
     outcome |-> "None", result |-> <<>>]
Call(op, y, X, fh, opt, outcome, result) ==
    [op |-> op, y |-> y, X |-> X, fh |-> fh, opt |-> opt,
     outcome |-> outcome, result |-> result]
NoModelCall ==
    [id |-> NoId, op |-> "None", y |-> 0, X |-> None, fh |-> 0, opt |-> None]
ModelCall(id, op, y, X, fh, opt) ==
    [id |-> id, op |-> op, y |-> y, X |-> X, fh |-> fh, opt |-> opt]
Snapshot ==
    [category_ |-> category_, chosen_forecaster_ |-> chosen_forecaster_,
     is_fitted |-> is_fitted, calls |-> transformer_.calls, nextId |-> nextId,
     forecasters |-> forecasters, forecasters_keys |-> forecasters_keys,
     fallback_forecaster |-> fallback_forecaster]

\* ------------------------------------------------------------ construction
Index(k) == CHOOSE i \in 1..Len(CategoryNames) : CategoryNames[i] = k

\* identities of the objects the user passes in
ProtoId(k) == Index(k)
FallbackId == Len(CategoryNames) + 1
FirstFreeId == Len(CategoryNames) + 2

\* the keys of a dict literal, in the order they are written
KeysInOrder(keys) ==
    [i \in 1..Cardinality(keys) |->
        CHOOSE k \in keys :
            Cardinality({j \in keys : Index(j) < Index(k)}) = i - 1]

\* position of key k in the list of keys d (dict order), from 0
Rank(d, k) == (CHOOSE i \in 1..Len(d) : d[i] = k) - 1

\* the tag dictionary of a forecaster class: tag t has value v (or is not
\* declared), every other tag has the value base
TagProfile(t, v, base) ==
    [x \in TagNames \ (IF v = "absent" THEN {t} ELSE {}) |->
        IF x = t THEN v ELSE base]

\* forecaster.get_tags()
get_tags(o) == o.tags

\* lines 147-153 and 156-160: one model makes the flag false when it does not
\* declare the tag or its value is the object False
fails_tag(forecaster_tags, tag) ==
    tag \notin DOMAIN forecaster_tags \/ forecaster_tags[tag] = "False"

\* lines 143-162: true_for_all of one tag
true_for_all(tag, fcs, fallback, heap) ==
    IF \E k \in DOMAIN fcs : fails_tag(get_tags(heap[fcs[k]]), tag)
    THEN "False"
    ELSE IF fallback # NoId /\ fails_tag(get_tags(heap[fallback]), tag)
         THEN "False"
         ELSE "True"

forecaster_list_without_fallback(fcs, fallback) == {fcs[k] : k \in DOMAIN fcs}

\* lines 172-175: the candidates and, when there is one, the fallback
forecaster_list(fcs, fallback) ==
    {fcs[k] : k \in DOMAIN fcs} \cup (IF fallback # NoId THEN {fallback} ELSE {})

\* _HeterogenousMetaEstimator._anytagis_then_set(tag, True, False, estimators):
\* the tag becomes True when any estimator has it True, False otherwise
_anytagis_then_set(tag, estimators, heap) ==
    IF \E e \in estimators :
          tag \in DOMAIN get_tags(heap[e]) /\ get_tags(heap[e])[tag] = "True"
    THEN "True"
    ELSE "False"

\* self.set_tags(**new): new values override the ones set before
set_tags(current, new) == new @@ current

\* self.get_tags() of the composite: instance tags over class tags
self_get_tags(dynamic) == dynamic @@ _tags

\* lines 427, 469, 509: the module-level functions
Hooks == {"_predict_interval", "_predict_var", "_predict_proba"}

\* lines 186-189: the functions become instance attributes when the
\* aggregated tag is true
attach_always(tags) == Hooks
attach_hooks(tags) ==
    IF tags["capability:pred_int"] = "True" THEN Hooks ELSE {}

isinstance_any(fcs, heap) ==
    DOMAIN fcs = {} \/ \E k \in DOMAIN fcs : heap[fcs[k]].is_forecaster

\* lines 122-123: every value of the dict is a BaseForecaster
isinstance_all(fcs, heap) ==
    \A k \in DOMAIN fcs : heap[fcs[k]].is_forecaster

\* lines 100-189
__init__ ==
    /\ phase = "new"
    /\ LET t == IF transformer.kind = "None"
                THEN Transformer("ADICV")
                ELSE transformer
           keys == DOMAIN forecasters
           any == [tag \in true_if_any_tags |->
                     _anytagis_then_set(
                         tag, forecaster_list(forecasters, fallback_forecaster), objs)]
           all == [tag \in true_if_all_tags |->
                     true_for_all(tag, forecasters, fallback_forecaster, objs)]
           dyn == set_tags(set_tags(tags_dynamic, any), all)
       IN  /\ transformer' = t
           /\ transformer_' = clone_transformer(t)
           /\ IF ~isinstance_all(forecasters, objs)
              THEN /\ phase' = "failed"
                   /\ last' = Call("__init__", 0, None, 0, None, "AssertionError", <<>>)
                   /\ UNCHANGED <<forecasters_, objs, nextId, tags_dynamic,
                                  attached>>
              ELSE /\ phase' = "constructed"
                   /\ last' = Call("__init__", 0, None, 0, None, "ok", <<>>)
                   /\ forecasters_' = [k \in keys |-> nextId + Rank(forecasters_keys, k)]
                   /\ objs' =
                        [i \in DOMAIN objs \cup
                               {nextId + Rank(forecasters_keys, k) : k \in keys} |->
                            IF i \in DOMAIN objs
                            THEN objs[i]
                            ELSE clone(objs[forecasters[
                                     CHOOSE k \in keys :
                                         nextId + Rank(forecasters_keys, k) = i]])]
                   /\ nextId' = nextId + Cardinality(keys)
                   /\ tags_dynamic' = dyn
                   /\ attached' = attach_hooks(self_get_tags(dyn))
    /\ before' = Snapshot
    /\ UNCHANGED <<forecasters, forecasters_keys, fallback_forecaster,
                   category_, chosen_forecaster_, is_fitted, modelCall, nsets>>

\* the arguments of a construction: a dict of forecasters whose tag
\* dictionaries are drawn from Profiles, an optional fallback forecaster
\* (already fitted by its owner), an optional transformer
InitArgs(Profiles, Validity, TransformerKinds, Uniform) ==
    \E keys \in SUBSET Categories :
    \E prof \in [keys \cup {"fallback"} -> Profiles] :
    (Uniform => \A j, k \in keys : prof[j] = prof[k]) /\
    \E valid \in [keys -> Validity] :
    \E fb \in {NoId, FallbackId} :
    \E tf \in TransformerKinds :
        /\ forecasters = [k \in keys |-> ProtoId(k)]
        /\ forecasters_keys = KeysInOrder(keys)
        /\ fallback_forecaster = fb
        /\ transformer = Transformer(tf)
        /\ objs = [i \in {ProtoId(k) : k \in keys} \cup
                          (IF fb = NoId THEN {} ELSE {fb}) |->
                      IF i = FallbackId
                      THEN Forecaster(i, prof["fallback"], TRUE, 1)
                      ELSE Forecaster(i, prof[CategoryNames[i]],
                                      valid[CategoryNames[i]], 0)]
        /\ prof["fallback"] = IF fb = NoId THEN CHOOSE q \in Profiles : TRUE
                              ELSE prof["fallback"]

InitRest ==
    /\ phase = "new"
    /\ transformer_ = Transformer("None")
    /\ forecasters_ = << >>
    /\ nextId = FirstFreeId
    /\ tags_dynamic = << >>
    /\ attached = {}
    /\ category_ = None
    /\ chosen_forecaster_ = NoId
    /\ is_fitted = FALSE
    /\ last = NoCall
    /\ before = [category_ |-> None, chosen_forecaster_ |-> NoId,
                 is_fitted |-> FALSE, calls |-> 0, nextId |-> FirstFreeId,
                 forecasters |-> forecasters,
                 forecasters_keys |-> forecasters_keys,
                 fallback_forecaster |-> fallback_forecaster]
    /\ modelCall = NoModelCall
    /\ nsets = 0

\* forecasters of the life-cycle specification differ in the one tag that
\* changes what the composite does after construction
LifecycleProfiles ==
    {TagProfile("capability:pred_int", v, "True") : v \in {"True", "False"}}

Init ==
    /\ InitArgs(LifecycleProfiles, BOOLEAN, {"user"}, TRUE)
    /\ InitRest

\* forecasters of the construction specification: one tag takes every value
\* (or is not declared) per forecaster, the other tags a common value
ConstructionProfiles(t, base) ==
    {TagProfile(t, v, base) : v \in TagValues(t) \cup {"absent"}}

InitConstruct ==
    /\ \E t \in TagNames : \E base \in {"True", "False"} :
           InitArgs(ConstructionProfiles(t, base), {TRUE}, {"None", "user"}, FALSE)
    /\ InitRest

\* ---------------------------------------------------------------- fitting
\* objects the composite's configuration refers to
Referenced ==
    {forecasters[k] : k \in DOMAIN forecasters}
        \cup {forecasters_[k] : k \in DOMAIN forecasters_}
        \cup {fallback_forecaster}

select_fallback_first(label, fcs, fcs_, fallback) ==
    IF fallback # NoId
    THEN [outcome |-> "ok", source |-> fallback]
    ELSE IF label \in DOMAIN fcs_
         THEN [outcome |-> "ok", source |-> fcs_[label]]
         ELSE [outcome |-> "ValueError", source |-> NoId]

select_ignores_fallback(label, fcs, fcs_, fallback) ==
    IF label \in DOMAIN fcs_
    THEN [outcome |-> "ok", source |-> fcs_[label]]
    ELSE [outcome |-> "ValueError", source |-> NoId]

select_some_candidate(label, fcs, fcs_, fallback) ==
    IF label \in DOMAIN fcs_
    THEN [outcome |-> "ok", source |-> fcs_[label]]
    ELSE IF fallback # NoId
         THEN [outcome |-> "ok", source |-> fallback]
         ELSE IF DOMAIN fcs_ # {}
              THEN [outcome |-> "ok",
                    source |-> fcs_[CHOOSE k \in DOMAIN fcs_ : TRUE]]
              ELSE [outcome |-> "ValueError", source |-> NoId]

\* lines 243-256: the object whose clone becomes the chosen forecaster
select(label, fcs, fcs_, fallback) ==
    IF label \notin DOMAIN fcs
    THEN IF fallback = NoId
         THEN [outcome |-> "ValueError", source |-> NoId]
         ELSE [outcome |-> "ok", source |-> fallback]
    ELSE IF label \in DOMAIN fcs_
         THEN [outcome |-> "ok", source |-> fcs_[label]]
         ELSE [outcome |-> "KeyError", source |-> NoId]

reuse_object(next, current) == IF current # NoId THEN current ELSE next

\* lines 253 and 256: clone() returns an object that did not exist before
new_object(next, current) == next

not_cloned(source, fresh) == source

\* lines 253 and 256: the attribute gets the result of .clone(), not the
\* object .clone() was called on
cloned(source, fresh) == fresh

\* the heap after self.chosen_forecaster_ = o: the object the attribute
\* held before is dropped unless the configuration still refers to it
assign_chosen(heap, id, o) ==
    [i \in ((DOMAIN heap) \ ({chosen_forecaster_} \ Referenced)) \cup {id} |->
        IF i = id THEN o ELSE heap[i]]

\* line 259: forecaster.fit(y=y, X=X, fh=fh) leaves the forecaster fitted on y
fit_forecaster(o, y) == [o EXCEPT !.fit = y]

_fit_returns_without_forecaster(y, X, fh, raises) ==
    LET label == classify(transformer_, y)
        sel == select(label, forecasters, forecasters_, fallback_forecaster)
        made == clone(objs[sel.source])
        id == cloned(sel.source, new_object(nextId, chosen_forecaster_))
    IN  IF raises = "transformer"
        THEN /\ transformer_' = [transformer_ EXCEPT !.calls = @ + 1]
             /\ last' = Call("fit", y, X, fh, None, "TransformerError", <<>>)
             /\ modelCall' = NoModelCall
             /\ UNCHANGED <<category_, chosen_forecaster_, objs, nextId>>
        ELSE /\ transformer_' =
                    [transformer_ EXCEPT !.fitted = y, !.calls = @ + 1]
             /\ category_' = label
             /\ IF sel.outcome # "ok"
                THEN /\ last' = Call("fit", y, X, fh, None, "ok", <<>>)
                     /\ modelCall' = NoModelCall
                     /\ UNCHANGED <<chosen_forecaster_, objs, nextId>>
                ELSE /\ chosen_forecaster_' = id
                     /\ nextId' = nextId + 1
                     /\ modelCall' = ModelCall(id, "fit", y, X, fh, None)
                     /\ IF raises = "forecaster"
                        THEN /\ objs' = assign_chosen(objs, id, made)
                             /\ last' = Call("fit", y, X, fh, None,
                                             "ForecasterError", <<>>)
                        ELSE /\ objs' = assign_chosen(
                                            objs, id, fit_forecaster(made, y))
                             /\ last' = Call("fit", y, X, fh, None, "ok", <<>>)

\* lines 199-261; raises names the collaborator that raises during the call
\* ("transformer": fit_transform, "forecaster": the chosen forecaster's fit)
_fit(y, X, fh, raises) ==
    LET label == classify(transformer_, y)
        sel == select(label, forecasters, forecasters_, fallback_forecaster)
        made == clone(objs[sel.source])
        id == cloned(sel.source, new_object(nextId, chosen_forecaster_))
    IN  IF raises = "transformer"
        THEN /\ transformer_' = [transformer_ EXCEPT !.calls = @ + 1]
             /\ last' = Call("fit", y, X, fh, None, "TransformerError", <<>>)
             /\ modelCall' = NoModelCall
             /\ UNCHANGED <<category_, chosen_forecaster_, objs, nextId>>
        ELSE /\ transformer_' =
                    [transformer_ EXCEPT !.fitted = y, !.calls = @ + 1]
             /\ category_' = label
             /\ IF sel.outcome # "ok"
                THEN /\ last' = Call("fit", y, X, fh, None, sel.outcome, <<label>>)
                     /\ modelCall' = NoModelCall
                     /\ UNCHANGED <<chosen_forecaster_, objs, nextId>>
                ELSE /\ chosen_forecaster_' = id
                     /\ nextId' = nextId + 1
                     /\ modelCall' = ModelCall(id, "fit", y, X, fh, None)
                     /\ IF raises = "forecaster"
                        THEN /\ objs' = assign_chosen(objs, id, made)
                             /\ last' = Call("fit", y, X, fh, None,
                                             "ForecasterError", <<>>)
                        ELSE /\ objs' = assign_chosen(
                                            objs, id, fit_forecaster(made, y))
                             /\ last' = Call("fit", y, X, fh, None, "ok", <<>>)

\* BaseForecaster.fit: calls _fit and marks the composite fitted when it
\* returns
fit(Xs, fhs, Raises) ==
    \E y \in Series, X \in Xs, fh \in fhs, raises \in Raises :
        /\ phase = "constructed"
        /\ transformer_.calls < MaxFits
        /\ before' = Snapshot
        /\ _fit(y, X, fh, raises)
        /\ is_fitted' = IF last'.outcome = "ok" THEN TRUE ELSE is_fitted
        /\ UNCHANGED <<phase, config, forecasters_, tags_dynamic, attached,
                       nsets>>

Fit == fit(Exog, Horizons, {"nothing", "transformer", "forecaster"})

\* ------------------------------------------------------ predict and update
_predict_drops_X(fh, X) ==
    /\ modelCall' = ModelCall(chosen_forecaster_, "predict", 0, None, fh, None)
    /\ last' = Call("predict", 0, X, fh, None, "ok",
                    Forecast(objs[chosen_forecaster_], "predict", fh, None, None))
    /\ UNCHANGED <<transformer_, category_, chosen_forecaster_, objs, nextId>>

\* lines 263-294
_predict(fh, X) ==
    /\ modelCall' = ModelCall(chosen_forecaster_, "predict", 0, X, fh, None)
    /\ last' = Call("predict", 0, X, fh, None, "ok",
                    Forecast(objs[chosen_forecaster_], "predict", fh, X, None))
    /\ UNCHANGED <<transformer_, category_, chosen_forecaster_, objs, nextId>>

_update_reclassifies(y, X, update_params) ==
    /\ transformer_' = [transformer_ EXCEPT !.fitted = y, !.calls = @ + 1]
    /\ category_' = iloc(fit_transform(transformer_, y), 0, 0)
    /\ modelCall' =
            ModelCall(chosen_forecaster_, "update", y, X, 0, update_params)
    /\ objs' = [objs EXCEPT ![chosen_forecaster_].nupd = @ + 1]
    /\ last' = Call("update", y, X, 0, update_params, "ok", <<>>)
    /\ UNCHANGED <<chosen_forecaster_, nextId>>

\* lines 296-333
_update(y, X, update_params) ==
    /\ modelCall' =
            ModelCall(chosen_forecaster_, "update", y, X, 0, update_params)
    /\ objs' = [objs EXCEPT ![chosen_forecaster_].nupd = @ + 1]
    /\ last' = Call("update", y, X, 0, update_params, "ok", <<>>)
    /\ UNCHANGED <<transformer_, category_, chosen_forecaster_, nextId>>

\* a call that ends in an error before it reaches the composite's own code
Refused(op, y, X, fh, opt, error) ==
    /\ last' = Call(op, y, X, fh, opt, error, <<>>)
    /\ modelCall' = NoModelCall
    /\ UNCHANGED <<transformer_, category_, chosen_forecaster_, objs, nextId>>

Frame ==
    /\ before' = Snapshot
    /\ UNCHANGED <<phase, config, forecasters_, tags_dynamic, attached,
                   is_fitted, nsets>>

\* BaseForecaster.predict: valid only when fitted
Predict ==
    \E fh \in Horizons, X \in Exog :
        /\ phase = "constructed"
        /\ IF is_fitted
           THEN _predict(fh, X)
           ELSE Refused("predict", 0, X, fh, None, "NotFittedError")
        /\ Frame

\* BaseForecaster.update: valid only when fitted
Update ==
    \E y \in Series, X \in Exog, update_params \in {"True", "False"} :
        /\ phase = "constructed"
        /\ IF is_fitted
           THEN /\ objs[chosen_forecaster_].nupd < MaxUpdates
                /\ _update(y, X, update_params)
           ELSE Refused("update", y, X, 0, update_params, "NotFittedError")
        /\ Frame

\* ------------------------------------------------- probabilistic forecasts
\* lines 427, 469, 509: the parameters of the module-level functions, and
\* those among them that have a default value
HookParams(h) ==
    IF h = "_predict_interval" THEN {"self", "fh", "X", "coverage"}
    ELSE IF h = "_predict_var" THEN {"self", "fh", "X", "cov"}
    ELSE {"self", "fh", "X", "marginal"}

HookDefaults(h) ==
    IF h = "_predict_interval" THEN {}
    ELSE IF h = "_predict_var" THEN {"X", "cov"}
    ELSE {"marginal"}

\* the name of the option each function passes on
HookOption(h) ==
    IF h = "_predict_interval" THEN "coverage"
    ELSE IF h = "_predict_var" THEN "cov"
    ELSE "marginal"

\* the forecaster method each function calls (lines 466, 506, 534)
HookTarget(h) ==
    IF h = "_predict_interval" THEN "predict_interval"
    ELSE IF h = "_predict_var" THEN "predict_var"
    ELSE "predict_proba"

\* lines 187-189 store the functions in the instance, not in the class: an
\* attribute found in the instance is returned as it is, without binding
\* the instance to its first parameter, so a call self.h(...) passes exactly
\* the arguments written at the call
bound_args(h, given) ==
    IF h \in attached THEN given ELSE given \cup {"self"}

\* required parameters a call leaves without a value
missing_args(h, given) ==
    {p \in HookParams(h) \ HookDefaults(h) : p \notin bound_args(h, given)}

\* lines 427-534: each function forwards to the chosen forecaster
hook_body(h, fh, X, opt) ==
    /\ modelCall' = ModelCall(chosen_forecaster_, HookTarget(h), 0, X, fh, opt)
    /\ last' = Call(HookTarget(h), 0, X, fh, opt, "ok",
                    Forecast(objs[chosen_forecaster_], HookTarget(h), fh, X, opt))
    /\ UNCHANGED <<transformer_, category_, chosen_forecaster_, objs, nextId>>

\* BaseForecaster.predict_interval / predict_var / predict_proba: refuse
\* when the composite's tag capability:pred_int is not true or the composite
\* is not fitted, else call self.h(fh=fh, X=X, <option>=opt)
probabilistic(h, fh, X, opt) ==
    /\ phase = "constructed"
    /\ IF self_get_tags(tags_dynamic)["capability:pred_int"] # "True"
       THEN Refused(HookTarget(h), 0, X, fh, opt, "NotImplementedError")
       ELSE IF ~is_fitted
       THEN Refused(HookTarget(h), 0, X, fh, opt, "NotFittedError")
       ELSE IF h \notin attached
       THEN Refused(HookTarget(h), 0, X, fh, opt, "BaseImplementation")
       ELSE IF missing_args(h, {"fh", "X", HookOption(h)}) # {}
       THEN Refused(HookTarget(h), 0, X, fh, opt, "TypeError")
       ELSE hook_body(h, fh, X, opt)
    /\ Frame

PredictInterval ==
    \E fh \in Horizons \ {0}, X \in Exog, coverage \in Coverages :
        probabilistic("_predict_interval", fh, X, coverage)

PredictVar ==
    \E fh \in Horizons \ {0}, X \in Exog, cov \in {"True", "False"} :
        probabilistic("_predict_var", fh, X, cov)

PredictProba ==
    \E fh \in Horizons \ {0}, X \in Exog, marginal \in {"True", "False"} :
        probabilistic("_predict_proba", fh, X, marginal)

\* ------------------------------------------------- the _forecasters view
\* lines 388-404: the items of the dict in dict order, then the fallback
\* under the name "fallback_forecaster"
_forecasters(fcs, keys, fallback) ==
    [i \in 1..Len(keys) |-> <<keys[i], fcs[keys[i]]>>]
        \o << <<"fallback_forecaster", fallback>> >>

\* lines 418-422: one entry of the list
set_entry_ignores_reserved_name(cfg, category, forecaster) ==
    [cfg EXCEPT
        !.forecasters = (category :> forecaster) @@ @,
        !.forecasters_keys =
            IF category \in DOMAIN cfg.forecasters THEN @
            ELSE Append(@, category)]

set_entry(cfg, category, forecaster) ==
    IF category # "fallback_forecaster"
    THEN [cfg EXCEPT
            !.forecasters = (category :> forecaster) @@ @,
            !.forecasters_keys =
                IF category \in DOMAIN cfg.forecasters THEN @
                ELSE Append(@, category)]
    ELSE [cfg EXCEPT !.fallback_forecaster = forecaster]

\* lines 406-422: the setter takes the entries in list order
RECURSIVE _forecasters_setter(_, _)
_forecasters_setter(cfg, new_forecasters) ==
    IF new_forecasters = << >>
    THEN cfg
    ELSE _forecasters_setter(
             set_entry(cfg, Head(new_forecasters)[1], Head(new_forecasters)[2]),
             Tail(new_forecasters))

\* the forecaster objects the user holds
UserObjects == 1..FallbackId

\* the forecasters a caller assigns after construction
Replacements == {ProtoId("smooth"), FallbackId}

\* entries a caller may assign: a forecaster under a category, or a
\* forecaster or None under the reserved name
Entries ==
    {<<c, f>> : c \in Categories, f \in Replacements}
        \cup {<<"fallback_forecaster", NoId>>}

\* lists of one entry, and of two entries that name the same category with
\* different forecasters
EntryLists ==
    {<<e>> : e \in Entries}
        \cup {p \in Entries \X Entries : p[1][1] = p[2][1] /\ p[1] # p[2]}

\* self._forecasters = new_forecasters, where new_forecasters is a list of
\* entries or the value just read from self._forecasters
SetForecasters ==
    \E new_forecasters \in
           EntryLists \cup
               {_forecasters(forecasters, forecasters_keys, fallback_forecaster)} :
        /\ phase = "constructed"
        /\ nsets < MaxSets
        /\ LET cfg == _forecasters_setter(
                          [forecasters |-> forecasters,
                           forecasters_keys |-> forecasters_keys,
                           fallback_forecaster |-> fallback_forecaster],
                          new_forecasters)
           IN  /\ forecasters' = cfg.forecasters
               /\ forecasters_keys' = cfg.forecasters_keys
               /\ fallback_forecaster' = cfg.fallback_forecaster
        /\ nsets' = nsets + 1
        /\ last' = Call("_forecasters", 0, None, 0, None, "ok", new_forecasters)
        /\ modelCall' = NoModelCall
        /\ before' = Snapshot
        /\ UNCHANGED <<phase, transformer, transformer_, forecasters_, objs,
                       nextId, tags_dynamic, attached, category_,
                       chosen_forecaster_, is_fitted>>

\* a fit without exogenous data in which no collaborator raises
FitSeries == fit({None}, {1}, {"nothing"})

\* a composite whose user holds further forecasters to assign later
InitSetter ==
    /\ \E keys \in SUBSET Categories : \E fb \in {NoId, FallbackId} :
           /\ forecasters = [k \in keys |-> ProtoId(k)]
           /\ forecasters_keys = KeysInOrder(keys)
           /\ fallback_forecaster = fb
    /\ transformer = Transformer("user")
    /\ objs = [i \in UserObjects |->
                  Forecaster(i, TagProfile("capability:pred_int", "True", "True"),
                             TRUE, IF i = FallbackId THEN 1 ELSE 0)]
    /\ InitRest

\* --------------------------------------------------------- specifications
Next ==
    \/ __init__
    \/ Fit
    \/ Predict
    \/ Update
    \/ PredictInterval
    \/ PredictVar
    \/ PredictProba

Spec == Init /\ [][Next]_vars

NextConstruct == __init__

SpecConstruct == InitConstruct /\ [][NextConstruct]_vars

NextSetter ==
    \/ __init__
    \/ SetForecasters
    \/ FitSeries

SpecSetter == InitSetter /\ [][NextSetter]_vars

\* ------------------------------------------------------------------ claims
\* the category of the series of the last call
LastLabel == iloc(fit_transform(transformer_, last.y), 0, 0)

\* the last call was a fit in which the transformer produced a label
Routed == last.op = "fit" /\ last.outcome # "TransformerError"

\* the chosen forecaster is an object made during the last call
FreshChosen ==
    /\ chosen_forecaster_ \in DOMAIN objs
    /\ chosen_forecaster_ \notin Referenced
    /\ chosen_forecaster_ # before.chosen_forecaster_
    /\ chosen_forecaster_ >= before.nextId

\* the chosen forecaster is a clone of object p, fitted by the last call
\* with the arguments of that call
FittedCloneOf(p) ==
    /\ FreshChosen
    /\ objs[chosen_forecaster_].mark = objs[p].mark
    /\ objs[chosen_forecaster_].tags = objs[p].tags
    /\ objs[chosen_forecaster_].nupd = 0
    /\ objs[chosen_forecaster_].fit = IF last.outcome = "ok" THEN last.y ELSE 0
    /\ modelCall =
           ModelCall(chosen_forecaster_, "fit", last.y, last.X, last.fh, None)

\* C1: a fit whose label is a key of the candidate set does not fail in
\* routing (it succeeds unless a collaborator raises), and the chosen
\* forecaster is a fresh clone of the candidate registered under the label,
\* not the fallback and not a prototype, fitted with the y, X and fh of the
\* call.
C1_FitSelectsCandidate ==
    (Routed /\ LastLabel \in DOMAIN forecasters) =>
        /\ last.outcome \in {"ok", "ForecasterError"}
        /\ last.outcome = "ok" => is_fitted
        /\ category_ = LastLabel
        /\ FittedCloneOf(forecasters[LastLabel])

C1_Witness ==
    /\ Routed /\ last.outcome = "ok"
    /\ LastLabel \in DOMAIN forecasters
    /\ fallback_forecaster # NoId
    /\ last.X = "X1" /\ last.fh = 1

\* C2: with a fallback present (the candidate set empty or not), a fit whose
\* label is no key of the candidate set does not fail in routing, and the
\* chosen forecaster is a fresh clone of the fallback, fitted with the y, X
\* and fh of the call.
C2_FitSelectsFallback ==
    (Routed /\ LastLabel \notin DOMAIN forecasters /\ fallback_forecaster # NoId) =>
        /\ last.outcome \in {"ok", "ForecasterError"}
        /\ last.outcome = "ok" => is_fitted
        /\ category_ = LastLabel
        /\ FittedCloneOf(fallback_forecaster)

C2_Witness ==
    /\ Routed /\ last.outcome = "ok"
    /\ DOMAIN forecasters = {}
    /\ fallback_forecaster # NoId
    /\ last.X = "X1" /\ last.fh = 1

\* C3: without a fallback, a fit whose label is no key of the candidate set
\* fails with the ValueError that carries the label; no forecaster is cloned
\* and no forecaster's fit is called.
C3_FitMissingCandidate ==
    (Routed /\ LastLabel \notin DOMAIN forecasters /\ fallback_forecaster = NoId) =>
        /\ last.outcome = "ValueError"
        /\ last.result = <<LastLabel>>
        /\ modelCall = NoModelCall
        /\ nextId = before.nextId
        /\ chosen_forecaster_ = before.chosen_forecaster_
        /\ ~is_fitted => ~before.is_fitted

C3_Witness ==
    /\ Routed /\ last.outcome = "ValueError"
    /\ DOMAIN forecasters = {}
    /\ fallback_forecaster = NoId

\* C4: a fit that fails leaves category_ and chosen_forecaster_ as they were
\* before the call.
C4_FailedFitKeepsState ==
    (last.op = "fit" /\ last.outcome # "ok") =>
        /\ category_ = before.category_
        /\ chosen_forecaster_ = before.chosen_forecaster_

\* C5: an update of a fitted composite does not call the transformer, leaves
\* category_ and the identity of chosen_forecaster_ as they were and reaches
\* that forecaster's update with the y, X and update_params of the call.
C5_UpdateNeverReroutes ==
    (last.op = "update" /\ last.outcome = "ok") =>
        /\ transformer_.calls = before.calls
        /\ category_ = before.category_
        /\ chosen_forecaster_ = before.chosen_forecaster_
        /\ modelCall = ModelCall(chosen_forecaster_, "update",
                                 last.y, last.X, 0, last.opt)

C5_Witness ==
    /\ last.op = "update" /\ last.outcome = "ok"
    /\ LastLabel # category_
    /\ LastLabel \in DOMAIN forecasters
    /\ category_ \in DOMAIN forecasters

\* the object the router's rule names for the label of the last call
Expected ==
    IF LastLabel \in DOMAIN forecasters
    THEN forecasters[LastLabel]
    ELSE fallback_forecaster

ForwardOps ==
    {"predict", "update", "predict_interval", "predict_var", "predict_proba"}

\* C6: a successful fit of an already fitted composite leaves category_ and
\* chosen_forecaster_ as its own routing decides: the chosen forecaster is a
\* new clone, not the object chosen by the fit before, it carries no fitted
\* state but this fit's, and later predict and update calls keep it.
C6_RefitOverwrites ==
    /\ (last.op = "fit" /\ last.outcome = "ok" /\ before.is_fitted) =>
            /\ category_ = LastLabel
            /\ before.chosen_forecaster_ # NoId
            /\ chosen_forecaster_ # before.chosen_forecaster_
            /\ FittedCloneOf(Expected)
    /\ (last.op \in ForwardOps /\ before.is_fitted) =>
            /\ category_ = before.category_
            /\ chosen_forecaster_ = before.chosen_forecaster_

C6_Witness ==
    /\ last.op = "fit" /\ last.outcome = "ok" /\ before.is_fitted
    /\ before.category_ # category_
    /\ before.category_ \in DOMAIN forecasters
    /\ category_ \in DOMAIN forecasters

\* C7: a predict of a fitted composite returns what the chosen forecaster's
\* predict returns for the same fh and X, does not call the transformer and
\* leaves category_ and chosen_forecaster_ as they were; a predict that
\* follows a predict with the same arguments returns the same result.
C7_PredictForwards ==
    /\ [](  (last.op = "predict" /\ last.outcome = "ok") =>
              /\ modelCall = ModelCall(chosen_forecaster_, "predict",
                                       0, last.X, last.fh, None)
              /\ last.result = Forecast(objs[chosen_forecaster_], "predict",
                                        last.fh, last.X, None)
              /\ transformer_.calls = before.calls
              /\ category_ = before.category_
              /\ chosen_forecaster_ = before.chosen_forecaster_ )
    /\ [][ ( /\ last.op = "predict" /\ last.outcome = "ok"
             /\ last'.op = "predict" /\ last'.outcome = "ok"
             /\ last'.fh = last.fh /\ last'.X = last.X )
           => ( /\ last'.result = last.result
                /\ objs' = objs
                /\ chosen_forecaster_' = chosen_forecaster_ ) ]_vars

C7_Witness ==
    /\ last.op = "predict" /\ last.outcome = "ok"
    /\ last.X = "X1" /\ last.fh = 1
    /\ objs[chosen_forecaster_].nupd > 0

PredIntTag == self_get_tags(tags_dynamic)["capability:pred_int"]

ProbabilisticOps == {"predict_interval", "predict_var", "predict_proba"}

\* C8: the three probabilistic functions are attached to the composite
\* exactly when its aggregated tag capability:pred_int is true; when it is
\* not, predict_interval (and the other two) are refused as not implemented
\* and reach no forecaster, while predict of the fitted composite succeeds.
C8_HooksFollowTag ==
    phase = "constructed" =>
        /\ attached = (IF PredIntTag = "True" THEN Hooks ELSE {})
        /\ (PredIntTag # "True" /\ last.op \in ProbabilisticOps) =>
               /\ last.outcome = "NotImplementedError"
               /\ modelCall = NoModelCall
        /\ (last.op = "predict" /\ before.is_fitted) => last.outcome = "ok"

C8_Witness ==
    /\ last.op = "predict_interval"
    /\ last.outcome = "NotImplementedError"
    /\ is_fitted
    /\ DOMAIN forecasters # {}
    /\ \A k \in DOMAIN forecasters :
           get_tags(objs[forecasters[k]])["capability:pred_int"] = "False"
    /\ attached = {}

\* C9: with the aggregated tag capability:pred_int true, a probabilistic
\* forecast call on the fitted composite reaches the chosen forecaster's
\* method of the same name with the same fh, X and option, and returns its
\* result.
C9_ProbabilisticForwards ==
    (last.op \in ProbabilisticOps /\ PredIntTag = "True" /\ before.is_fitted) =>
        /\ last.outcome = "ok"
        /\ modelCall = ModelCall(chosen_forecaster_, last.op,
                                 0, last.X, last.fh, last.opt)
        /\ last.result = Forecast(objs[chosen_forecaster_], last.op,
                                  last.fh, last.X, last.opt)

\* the forecasters the aggregation runs over
Constituents ==
    {forecasters[k] : k \in DOMAIN forecasters} \cup ({fallback_forecaster} \ {NoId})

\* C10: after construction each all-required tag of the composite is true
\* exactly when every candidate and the fallback (if any) declares the tag
\* with the value true.
C10_AllRequiredAggregation ==
    phase = "constructed" =>
        \A tag \in true_if_all_tags :
            (self_get_tags(tags_dynamic)[tag] = "True") <=>
                (\A e \in Constituents :
                    /\ tag \in DOMAIN get_tags(objs[e])
                    /\ get_tags(objs[e])[tag] = "True")

\* the composite's value of a tag after construction
CompositeTag(tag) == self_get_tags(tags_dynamic)[tag]

\* the value a forecaster has for a tag; a tag it does not declare counts
\* as false
FlagValue(o, tag) ==
    IF tag \in DOMAIN get_tags(o) THEN get_tags(o)[tag] ELSE "False"

\* C11: with no candidates, every all-required tag of the composite is true
\* when there is no fallback and has the fallback's own value when there is
\* one, and every any-triggers tag is true exactly when there is a fallback
\* that has it true.
C11_EmptyCandidates ==
    (phase = "constructed" /\ DOMAIN forecasters = {}) =>
        /\ \A tag \in true_if_all_tags :
              CompositeTag(tag) =
                  IF fallback_forecaster = NoId
                  THEN "True"
                  ELSE FlagValue(objs[fallback_forecaster], tag)
        /\ \A tag \in true_if_any_tags :
              (CompositeTag(tag) = "True") <=>
                  /\ fallback_forecaster # NoId
                  /\ FlagValue(objs[fallback_forecaster], tag) = "True"

\* C12: after construction the composite's requires-fh-in-fit is true exactly
\* when a candidate or the fallback (if any) has the tag true.
C12_AnyRequiresFh ==
    phase = "constructed" =>
        ((CompositeTag("requires-fh-in-fit") = "True") <=>
            \E e \in Constituents :
                FlagValue(objs[e], "requires-fh-in-fit") = "True")

C12_Witness ==
    /\ phase = "constructed"
    /\ CompositeTag("requires-fh-in-fit") = "True"
    /\ DOMAIN forecasters # {}
    /\ \A k \in DOMAIN forecasters :
           FlagValue(objs[forecasters[k]], "requires-fh-in-fit") = "False"
    /\ fallback_forecaster # NoId

\* C13: after construction the composite's X-y-must-have-same-index is true
\* when a candidate or the fallback (if any) has the tag true, whatever the
\* value the other candidates have.
C13_AnyMatchingIndices ==
    phase = "constructed" =>
        ((\E e \in Constituents :
              FlagValue(objs[e], "X-y-must-have-same-index") = "True")
         => CompositeTag("X-y-must-have-same-index") = "True")

\* object c is a clone of object p: another object of the same class and
\* hyper-parameters
CloneOf(c, p) ==
    /\ c \in DOMAIN objs /\ p \in DOMAIN objs
    /\ c # p
    /\ objs[c].mark = objs[p].mark

\* C14: in every state in which category_ and chosen_forecaster_ are both
\* set, category_ is a key of forecasters exactly when chosen_forecaster_ is a
\* clone of the candidate registered under it; otherwise there is a fallback
\* and chosen_forecaster_ is a clone of it.
C14_CategoryMatchesChosen ==
    (category_ # None /\ chosen_forecaster_ # NoId) =>
        IF category_ \in DOMAIN forecasters
        THEN CloneOf(chosen_forecaster_, forecasters[category_])
        ELSE /\ fallback_forecaster # NoId
             /\ CloneOf(chosen_forecaster_, fallback_forecaster)

\* C15: construction ends in an AssertionError, and yields no composite,
\* exactly when some value of the forecasters dict is not a forecaster; when
\* every value is one (the empty dict included) the check passes and the
\* composite is constructed.
C15_ConstructionChecksCandidates ==
    phase # "new" =>
        /\ (phase = "failed") <=>
               (\E k \in DOMAIN forecasters : ~objs[forecasters[k]].is_forecaster)
        /\ phase = "failed" =>
               /\ last = Call("__init__", 0, None, 0, None, "AssertionError", <<>>)
               /\ forecasters_ = << >>
               /\ tags_dynamic = << >>
               /\ category_ = None /\ chosen_forecaster_ = NoId /\ ~is_fitted
        /\ phase = "constructed" => DOMAIN forecasters_ = DOMAIN forecasters

C15_Witness ==
    /\ phase = "failed"
    /\ \E j, k \in DOMAIN forecasters :
           /\ objs[forecasters[j]].is_forecaster
           /\ ~objs[forecasters[k]].is_forecaster

\* C16: as long as no fit has succeeded (after construction, or after failed
\* fits only), a predict or update call ends in NotFittedError, reaches no
\* forecaster and changes no forecaster; whenever the composite is fitted
\* there is a chosen forecaster, so no call reaches an absent one.
C16_OnlyWhenFitted ==
    /\ (last.op \in {"predict", "update"} /\ ~before.is_fitted) =>
           /\ last.outcome = "NotFittedError"
           /\ modelCall = NoModelCall
           /\ ~is_fitted
           /\ \A i \in DOMAIN objs : objs[i].nupd = 0
    /\ is_fitted => chosen_forecaster_ \in DOMAIN objs \ {NoId}
    /\ modelCall.op \in {"predict", "update"} =>
           /\ before.is_fitted
           /\ modelCall.id = chosen_forecaster_

C16_Witness ==
    /\ last.op = "predict" /\ last.outcome = "NotFittedError"
    /\ chosen_forecaster_ # NoId
    /\ objs[chosen_forecaster_].fit = 0

\* C17: after any sequence of assignments to _forecasters and fits, a fit
\* whose label is a key of the current forecasters dict does not fail in
\* routing and chooses a clone of the forecaster now registered under the
\* label; what a fit chooses depends only on the label and the current dict
\* and fallback, not on the assignments that led to them.
C17_SelectionFollowsConfiguration ==
    /\ (Routed /\ LastLabel \in DOMAIN forecasters) =>
           /\ last.outcome = "ok"
           /\ CloneOf(chosen_forecaster_, forecasters[LastLabel])
    /\ (Routed /\ last.outcome = "ok") =>
           CloneOf(chosen_forecaster_, Expected)

\* the objects the composite was configured with and its construction-time
\* clones
Prototypes == Referenced \ {NoId}

\* C18: the chosen forecaster is never one of the candidate prototypes, the
\* construction-time clones (forecasters_) or the fallback prototype; none
\* of these is fitted or updated by the composite; fit, update and predict
\* calls reach the chosen forecaster only.
C18_PrototypeIsolation ==
    phase = "constructed" =>
        /\ chosen_forecaster_ \notin Prototypes
        /\ \A p \in Prototypes :
              /\ p \in DOMAIN objs
              /\ objs[p].fit = (IF p = FallbackId THEN 1 ELSE 0)
              /\ objs[p].nupd = 0
        /\ modelCall.id \in {NoId, chosen_forecaster_}
        /\ modelCall.id \notin Prototypes

C18_Witness ==
    /\ last.op = "update" /\ last.outcome = "ok"
    /\ before.calls = MaxFits
    /\ category_ \in DOMAIN forecasters
    /\ fallback_forecaster # NoId
    /\ objs[chosen_forecaster_].nupd > 0

\* C19: every fit calls fit_transform of transformer_ exactly once, on the
\* series of the call, and no other operation calls it; when that call
\* raises nothing has been routed, cloned or fitted; otherwise category_ is
\* the cell [0,0] of its result and transformer_ holds the fit on this series
\* only; transformer_ is the clone made at construction, and the user's
\* transformer is never fitted.
C19_FitClassifiesOnce ==
    phase = "constructed" =>
        /\ transformer.fitted = 0 /\ transformer.calls = 0
        /\ transformer_.kind = transformer.kind
        /\ last.op = "fit" =>
              /\ transformer_.calls = before.calls + 1
              /\ last.outcome = "TransformerError" =>
                    /\ category_ = before.category_
                    /\ chosen_forecaster_ = before.chosen_forecaster_
                    /\ nextId = before.nextId
                    /\ modelCall = NoModelCall
              /\ last.outcome # "TransformerError" =>
                    /\ transformer_.fitted = last.y
                    /\ category_ = LastLabel
        /\ last.op \notin {"fit", "__init__"} =>
              transformer_.calls = before.calls

C19_Witness ==
    /\ last.op = "fit" /\ last.outcome = "ok"
    /\ transformer_.calls = MaxFits
    /\ before.category_ \notin {None, category_}
    /\ transformer.calls = 0

\* the view of the current configuration and of the one before the last call
View == _forecasters(forecasters, forecasters_keys, fallback_forecaster)
ViewBefore ==
    _forecasters(before.forecasters, before.forecasters_keys,
                 before.fallback_forecaster)

\* positions of the entries of a list that carry a category
Positions(entries, category) ==
    {i \in 1..Len(entries) : entries[i][1] = category}

\* the forecaster of the last entry that carries the category
LastEntry(entries, category) ==
    entries[CHOOSE i \in Positions(entries, category) :
                \A j \in Positions(entries, category) : j <= i][2]

\* C20: the view lists the items of the forecasters dict in dict order and
\* then exactly one entry ("fallback_forecaster", fallback); an assignment
\* stores the entries named "fallback_forecaster" as the fallback and every
\* other entry in the dict under its category; assigning the view as it was
\* read changes neither the dict nor the fallback, also when the dict has the
\* key "fallback_forecaster".
C20_ViewRoundTrip ==
    phase = "constructed" =>
        /\ Len(View) = Cardinality(DOMAIN forecasters) + 1
        /\ \A i \in 1..Len(forecasters_keys) :
              /\ forecasters_keys[i] \in DOMAIN forecasters
              /\ View[i] = <<forecasters_keys[i], forecasters[forecasters_keys[i]]>>
              /\ \A j \in 1..Len(forecasters_keys) :
                    forecasters_keys[i] = forecasters_keys[j] => i = j
        /\ View[Len(View)] = <<"fallback_forecaster", fallback_forecaster>>
        /\ last.op = "_forecasters" =>
              /\ fallback_forecaster =
                    IF Positions(last.result, "fallback_forecaster") = {}
                    THEN before.fallback_forecaster
                    ELSE LastEntry(last.result, "fallback_forecaster")
              /\ DOMAIN forecasters =
                    DOMAIN before.forecasters \cup
                        ({last.result[i][1] : i \in 1..Len(last.result)}
                            \ {"fallback_forecaster"})
              /\ \A c \in DOMAIN forecasters :
                    forecasters[c] =
                        IF c = "fallback_forecaster" \/ Positions(last.result, c) = {}
                        THEN before.forecasters[c]
                        ELSE LastEntry(last.result, c)
              /\ SubSeq(forecasters_keys, 1, Len(before.forecasters_keys))
                    = before.forecasters_keys
        /\ (last.op = "_forecasters" /\ last.result = ViewBefore) =>
              /\ forecasters = before.forecasters
              /\ forecasters_keys = before.forecasters_keys
              /\ fallback_forecaster = before.fallback_forecaster

C20_Witness ==
    /\ last.op = "_forecasters" /\ last.result = ViewBefore
    /\ nsets = MaxSets
    /\ "fallback_forecaster" \in DOMAIN forecasters
    /\ fallback_forecaster # forecasters["fallback_forecaster"]
    /\ Len(forecasters_keys) > 1
    /\ forecasters_keys # KeysInOrder(DOMAIN forecasters)

====
